---- MODULE Spec2Model ----
(***************************************************************************)
(* Page and PageType GraphQL mutations of saleor/graphql/page/mutations.py *)
(* as a state machine.  One request is served at a time, inside one        *)
(* persistence transaction; a request walks through the stages             *)
(*   check_permissions -> get_instance -> clean_input -> save ->           *)
(*   _save_m2m -> respond                                                  *)
(* The stage order belongs to the generic ModelMutation base class, which  *)
(* is not part of mutations.py; clean_input and _save_m2m of each mutation *)
(* class are translated from mutations.py.                                 *)
(***************************************************************************)
EXTENDS Integers, Sequences, FiniteSets, TLC

VARIABLES
    pages,            \* table of models.Page:      pk -> [name, slug], name the page's title
    pageTypes,        \* table of models.PageType:  pk -> [name, slug]
    page_attributes,  \* PageType.page_attributes relation: set of <<page type pk, attribute pk>>
    pc,               \* stage of the request being served
    request,          \* [mutation, id, input, perms]
    instance,         \* the model instance the mutation works on
    cleaned_input,    \* result of clean_input
    errors,           \* the raised ValidationError's error dict: field -> list of errors
    before            \* the three tables as they were when the request arrived

vars == <<pages, pageTypes, page_attributes, pc, request, instance,
          cleaned_input, errors, before>>

----------------------------------------------------------------------------
(* Bounds and fixture data *)

MaxLen == 2                      \* longest add_attributes / remove_attributes list

PageIds == {1}                   \* primary keys available to pages
PageTypeIds == {1}               \* primary keys available to page types
AttributePks == {1, 2, 3}        \* the attributes that exist

PAGE_TYPE == "page-type"
PRODUCT_TYPE == "product-type"

\* The attribute rows: attributes 1 and 2 are page type attributes, 3 is not.
Attribute(pk) ==
    [pk |-> pk, type |-> IF pk % 3 = 0 THEN PRODUCT_TYPE ELSE PAGE_TYPE]

Names == {"FAQ"}                 \* values of title / name
Slugs == {"help"}                \* explicit slug values

MANAGE_PAGES == "page.manage_pages"
MANAGE_PAGE_TYPES_AND_ATTRIBUTES == "page.manage_page_types_and_attributes"
AllPermissions == {MANAGE_PAGES, MANAGE_PAGE_TYPES_AND_ATTRIBUTES}

----------------------------------------------------------------------------
(* Python values *)

\* Optional values: None, or a value that is not None.
None == [is_none |-> TRUE]
Some(v) == [is_none |-> FALSE, value |-> v]

\* dict.get(key)
Get(d, k) == IF k \in DOMAIN d THEN Some(d[k]) ELSE None

\* Truth value of an optional list: None and [] are false.
Truthy(l) == (~l.is_none) /\ Len(l.value) > 0

EmptyDict == <<>>

\* d[k] = v
SetItem(d, k, v) == [x \in (DOMAIN d) \cup {k} |-> IF x = k THEN v ELSE d[x]]

\* errors[field].append(error) on a defaultdict(list)
AppendError(errs, field, error) ==
    SetItem(errs, field,
            IF field \in DOMAIN errs THEN Append(errs[field], error) ELSE <<error>>)

Range(s) == {s[i] : i \in DOMAIN s}

\* graphene.Node.to_global_id / from_global_id: the id is the encoding of "Type:pk"
to_global_id(type, pk) == <<type, pk>>
from_global_id(gid) == gid[2]

\* slugify of the source field
Slugify(text) == CASE text = "FAQ" -> "faq" [] OTHER -> ""

\* PageErrorCode members and their .value
PageErrorCode(name) == [enum |-> "PageErrorCode", name |-> name]
EnumValue(member) ==
    [enum |-> "",
     name |-> CASE member.name = "REQUIRED" -> "required"
                [] member.name = "INVALID" -> "invalid"
                [] member.name = "DUPLICATED_INPUT_ITEM" -> "duplicated_input_item"
                [] member.name = "NOT_FOUND" -> "not_found"
                [] OTHER -> "graphql_error"]

\* the code reported in a PageError: an enum member is replaced by its value
get_error_code_from_error(error) ==
    IF error.code.enum = "" THEN error.code.name ELSE EnumValue(error.code).name

ValidationError(message, code, params) ==
    [message |-> message, code |-> code, params |-> params]

----------------------------------------------------------------------------
(* Inputs *)

Lists(S) == UNION {[1..n -> S] : n \in 0..MaxLen}

GlobalIds == {to_global_id("Attribute", pk) : pk \in AttributePks}

\* an input object field that may be left out
Opt(k, S) == {EmptyDict} \cup {(k :> v) : v \in S}

PageInput ==
    {a @@ b : a \in Opt("title", Names), b \in Opt("slug", Slugs)}

PageTypeCreateInput ==
    {a @@ b @@ c : a \in Opt("name", Names), b \in Opt("slug", Slugs),
                   c \in Opt("add_attributes", Lists(GlobalIds))}

PageTypeUpdateInput ==
    {a @@ r : a \in PageTypeCreateInput,
              r \in Opt("remove_attributes", Lists(GlobalIds))}

\* Mutant: PageUpdate's own Meta leaves out permissions.
Permissions_PageUpdateOpen(mutation) ==
    CASE mutation \in {"pageCreate", "pageDelete"} -> {MANAGE_PAGES}
      [] mutation \in {"pageTypeCreate", "pageTypeUpdate"} ->
            {MANAGE_PAGE_TYPES_AND_ATTRIBUTES}
      [] OTHER -> {}

\* Meta.permissions of each mutation class
Permissions(mutation) ==
    CASE mutation \in {"pageCreate", "pageUpdate", "pageDelete"} -> {MANAGE_PAGES}
      [] mutation \in {"pageTypeCreate", "pageTypeUpdate"} ->
            {MANAGE_PAGE_TYPES_AND_ATTRIBUTES}
      [] OTHER -> {}

\* the permissions a call needs: pageTypeDelete, declared outside mutations.py,
\* needs the page type permission like the other page type mutations
RequiredPermissions(mutation) ==
    IF mutation = "pageTypeDelete"
    THEN {MANAGE_PAGE_TYPES_AND_ATTRIBUTES}
    ELSE Permissions(mutation)

----------------------------------------------------------------------------
(* Validation helpers *)

\* ModelMutation.clean_input: every ID of a list field is resolved to its node
ModelMutation_clean_input(data) ==
    [k \in DOMAIN data |->
        IF k \in {"add_attributes", "remove_attributes"}
        THEN [i \in DOMAIN data[k] |-> Attribute(from_global_id(data[k][i]))]
        ELSE data[k]]

\* validate_slug_and_generate_if_needed(instance, slugable_field, cleaned_input):
\* the cleaned input with a slug, generated from the source field when the input
\* gives none; a ValidationError when neither is available.
validate_slug_and_generate_if_needed(inst, slugable_field, cleaned) ==
    IF "slug" \in DOMAIN cleaned
    THEN [raised |-> FALSE, cleaned_input |-> cleaned]
    ELSE IF slugable_field \in DOMAIN cleaned
    THEN [raised |-> FALSE,
          cleaned_input |-> SetItem(cleaned, "slug", Slugify(cleaned[slugable_field]))]
    ELSE [raised |-> TRUE,
          error |-> ValidationError("Slug value cannot be blank.",
                                    [enum |-> "", name |-> "blank"], <<>>)]

\* get_duplicates_ids(first_list, second_list): the items on both lists
get_duplicates_ids(first_list, second_list) ==
    IF Truthy(first_list) /\ Truthy(second_list)
    THEN Range(first_list.value) \cap Range(second_list.value)
    ELSE {}

\* the list comprehension of validate_attributes
RECURSIVE not_valid_attributes(_)
not_valid_attributes(attributes) ==
    IF attributes = <<>> THEN <<>>
    ELSE (IF Head(attributes).type # PAGE_TYPE
          THEN <<to_global_id("Attribute", Head(attributes).pk)>>
          ELSE <<>>) \o not_valid_attributes(Tail(attributes))

\* Mutant: the error lists every attribute of the list, not only the offending ones.
validate_attributes_ListsAll(errs, attributes, field) ==
    IF Truthy(attributes) /\ not_valid_attributes(attributes.value) # <<>>
    THEN AppendError(errs, field,
            ValidationError("Only page type attributes allowed.",
                            EnumValue(PageErrorCode("INVALID")),
                            [attributes |-> [i \in DOMAIN attributes.value |->
                                to_global_id("Attribute", attributes.value[i].pk)]]))
    ELSE errs

\* Mutant: the test of the attribute type is inverted (== for !=).
validate_attributes_Inverted(errs, attributes, field) ==
    LET page_type_ones == SelectSeq(IF Truthy(attributes) THEN attributes.value ELSE <<>>,
                                    LAMBDA a : a.type = PAGE_TYPE)
    IN  IF page_type_ones # <<>>
        THEN AppendError(errs, field,
                ValidationError("Only page type attributes allowed.",
                                EnumValue(PageErrorCode("INVALID")),
                                [attributes |-> [i \in DOMAIN page_type_ones |->
                                    to_global_id("Attribute", page_type_ones[i].pk)]]))
        ELSE errs

\* PageTypeMixin.validate_attributes(errors, attributes, field): the errors dict after the call
validate_attributes(errs, attributes, field) ==
    IF Truthy(attributes) /\ not_valid_attributes(attributes.value) # <<>>
    THEN AppendError(errs, field,
            ValidationError("Only page type attributes allowed.",
                            EnumValue(PageErrorCode("INVALID")),
                            [attributes |-> not_valid_attributes(attributes.value)]))
    ELSE errs

\* Mutant: the error lists the whole add list, not the items on both lists.
check_for_duplicates_ListsAdded(errs, add_attributes, remove_attributes) ==
    LET duplicated_ids == get_duplicates_ids(add_attributes, remove_attributes)
    IN  IF duplicated_ids # {}
        THEN AppendError(errs, "attributes",
                ValidationError("The same object cannot be in both list for adding and removing items.",
                                EnumValue(PageErrorCode("DUPLICATED_INPUT_ITEM")),
                                [attributes |-> Range(add_attributes.value)]))
        ELSE errs

\* PageTypeUpdate.check_for_duplicates(errors, add_attributes, remove_attributes)
check_for_duplicates(errs, add_attributes, remove_attributes) ==
    LET duplicated_ids == get_duplicates_ids(add_attributes, remove_attributes)
    IN  IF duplicated_ids # {}
        THEN AppendError(errs, "attributes",
                ValidationError("The same object cannot be in both list for adding and removing items.",
                                EnumValue(PageErrorCode("DUPLICATED_INPUT_ITEM")),
                                [attributes |-> duplicated_ids]))
        ELSE errs

\* Mutant: the ValidationError of the slug check is caught and dropped.
PageCreate_clean_input_Swallows(inst, data) ==
    LET cleaned == ModelMutation_clean_input(data)
        slugged == validate_slug_and_generate_if_needed(inst, "title", cleaned)
    IN  [raised |-> FALSE, errors |-> EmptyDict,
         cleaned_input |-> IF slugged.raised THEN cleaned ELSE slugged.cleaned_input]

\* PageCreate.clean_input (inherited by PageUpdate)
PageCreate_clean_input(inst, data) ==
    LET cleaned == ModelMutation_clean_input(data)
        slugged == validate_slug_and_generate_if_needed(inst, "title", cleaned)
    IN  IF slugged.raised
        THEN [raised |-> TRUE,
              errors |-> ("slug" :> <<[slugged.error EXCEPT !.code = PageErrorCode("REQUIRED")]>>),
              cleaned_input |-> cleaned]
        ELSE [raised |-> FALSE, errors |-> EmptyDict,
              cleaned_input |-> slugged.cleaned_input]

\* Mutant: the slug error is raised at once, before the attributes are validated.
PageTypeCreate_clean_input_FailFast(inst, data) ==
    LET cleaned0 == ModelMutation_clean_input(data)
        slugged == validate_slug_and_generate_if_needed(inst, "name", cleaned0)
        errors1 == AppendError(EmptyDict, "slug",
                        [slugged.error EXCEPT !.code = EnumValue(PageErrorCode("REQUIRED"))])
        errors2 == validate_attributes(EmptyDict, Get(slugged.cleaned_input, "add_attributes"),
                                       "add_attributes")
    IN  IF slugged.raised
        THEN [raised |-> TRUE, errors |-> errors1, cleaned_input |-> cleaned0]
        ELSE [raised |-> DOMAIN errors2 # {}, errors |-> errors2,
              cleaned_input |-> slugged.cleaned_input]

\* PageTypeCreate.clean_input
PageTypeCreate_clean_input(inst, data) ==
    LET cleaned0 == ModelMutation_clean_input(data)
        slugged == validate_slug_and_generate_if_needed(inst, "name", cleaned0)
        errors1 == IF slugged.raised
                   THEN AppendError(EmptyDict, "slug",
                            [slugged.error EXCEPT !.code = EnumValue(PageErrorCode("REQUIRED"))])
                   ELSE EmptyDict
        cleaned == IF slugged.raised THEN cleaned0 ELSE slugged.cleaned_input
        errors2 == validate_attributes(errors1, Get(cleaned, "add_attributes"), "add_attributes")
    IN  [raised |-> DOMAIN errors2 # {}, errors |-> errors2, cleaned_input |-> cleaned]

\* Mutant: the collected errors are never raised ("if errors: raise" is missing).
PageTypeUpdate_clean_input_NoRaise(inst, data) ==
    LET cleaned0 == ModelMutation_clean_input(data)
        slugged == validate_slug_and_generate_if_needed(inst, "name", cleaned0)
        errors1 == IF slugged.raised
                   THEN AppendError(EmptyDict, "slug",
                            [slugged.error EXCEPT !.code = PageErrorCode("REQUIRED")])
                   ELSE EmptyDict
        cleaned == IF slugged.raised THEN cleaned0 ELSE slugged.cleaned_input
        add_attributes == Get(cleaned, "add_attributes")
        errors2 == validate_attributes(errors1, add_attributes, "add_attributes")
        remove_attributes == Get(cleaned, "remove_attributes")
        errors3 == validate_attributes(errors2, remove_attributes, "remove_attributes")
        errors4 == check_for_duplicates(errors3, Get(cleaned, "add_attributes"), remove_attributes)
    IN  [raised |-> FALSE, errors |-> errors4, cleaned_input |-> cleaned]

\* PageTypeUpdate.clean_input
PageTypeUpdate_clean_input(inst, data) ==
    LET cleaned0 == ModelMutation_clean_input(data)
        slugged == validate_slug_and_generate_if_needed(inst, "name", cleaned0)
        errors1 == IF slugged.raised
                   THEN AppendError(EmptyDict, "slug",
                            [slugged.error EXCEPT !.code = PageErrorCode("REQUIRED")])
                   ELSE EmptyDict
        cleaned == IF slugged.raised THEN cleaned0 ELSE slugged.cleaned_input
        add_attributes == Get(cleaned, "add_attributes")
        errors2 == validate_attributes(errors1, add_attributes, "add_attributes")
        remove_attributes == Get(cleaned, "remove_attributes")
        errors3 == validate_attributes(errors2, remove_attributes, "remove_attributes")
        errors4 == check_for_duplicates(errors3, Get(cleaned, "add_attributes"), remove_attributes)
    IN  [raised |-> DOMAIN errors4 # {}, errors |-> errors4, cleaned_input |-> cleaned]

----------------------------------------------------------------------------
(* Persistence helpers *)

\* instance.page_attributes.add(*attributes) / .remove(*attributes)
m2m_add(rel, pk, attributes) == rel \cup {<<pk, a.pk>> : a \in Range(attributes)}
m2m_remove(rel, pk, attributes) == rel \ {<<pk, a.pk>> : a \in Range(attributes)}

\* Mutant: add(attributes[0]) for add(*attributes).
PageTypeCreate_save_m2m_FirstOnly(rel, inst, cleaned_data) ==
    LET attributes == Get(cleaned_data, "add_attributes")
    IN  IF Truthy(attributes)
        THEN m2m_add(rel, inst.pk, <<Head(attributes.value)>>)
        ELSE rel

\* PageTypeCreate._save_m2m: the relation after the call
PageTypeCreate_save_m2m(rel, inst, cleaned_data) ==
    LET attributes == Get(cleaned_data, "add_attributes")
    IN  IF ~attributes.is_none THEN m2m_add(rel, inst.pk, attributes.value) ELSE rel

\* Mutant: the remove step works on remove_attributes, the add step on add_attributes.
PageTypeUpdate_save_m2m_Removes(rel, inst, cleaned_data) ==
    LET remove_attributes == Get(cleaned_data, "remove_attributes")
        add_attributes == Get(cleaned_data, "add_attributes")
        removed == IF ~remove_attributes.is_none
                   THEN m2m_remove(rel, inst.pk, remove_attributes.value) ELSE rel
    IN  IF ~add_attributes.is_none
        THEN m2m_add(removed, inst.pk, add_attributes.value) ELSE removed

\* PageTypeUpdate._save_m2m: the relation after the call.  The second assignment
\* to attributes replaces the remove_attributes read by the first.
PageTypeUpdate_save_m2m(rel, inst, cleaned_data) ==
    LET attributes0 == Get(cleaned_data, "remove_attributes")
        attributes == Get(cleaned_data, "add_attributes")
        removed == IF ~attributes.is_none
                   THEN m2m_remove(rel, inst.pk, attributes.value) ELSE rel
    IN  IF ~attributes.is_none THEN m2m_add(removed, inst.pk, attributes.value) ELSE removed

\* the model class a mutation works on (Meta.model)
Model(mutation) ==
    IF mutation \in {"pageCreate", "pageUpdate", "pageDelete"} THEN "Page" ELSE "PageType"

Table(model) == IF model = "Page" THEN pages ELSE pageTypes
Ids(model) == IF model = "Page" THEN PageIds ELSE PageTypeIds
SourceField(model) == IF model = "Page" THEN "title" ELSE "name"

\* the primary key the database gives a new row
NextPk(model) == CHOOSE pk \in Ids(model) \ DOMAIN Table(model) :
                    \A other \in Ids(model) \ DOMAIN Table(model) : pk <= other

NoRequest == [mutation |-> "", id |-> 0, input |-> EmptyDict, perms |-> {}]
NoInstance == [pk |-> 0, adding |-> FALSE, name |-> "", slug |-> ""]
Tables == [pages |-> pages, pageTypes |-> pageTypes, page_attributes |-> page_attributes]

----------------------------------------------------------------------------
(* The state machine *)

Init ==
    /\ pages = EmptyDict
    /\ pageTypes = EmptyDict
    /\ page_attributes = {}
    /\ pc = "idle"
    /\ request = NoRequest
    /\ instance = NoInstance
    /\ cleaned_input = EmptyDict
    /\ errors = EmptyDict
    /\ before = [pages |-> EmptyDict, pageTypes |-> EmptyDict, page_attributes |-> {}]

\* A client calls a mutation; the caller holds the permissions perms.
Mutate(mutation, id, input, perms) ==
    /\ pc = "idle"
    /\ request' = [mutation |-> mutation, id |-> id, input |-> input, perms |-> perms]
    /\ before' = Tables
    /\ pc' = "check_permissions"
    /\ UNCHANGED <<pages, pageTypes, page_attributes, instance, cleaned_input, errors>>

Call ==
    /\ pc = "idle"
    /\ \E perms \in SUBSET AllPermissions :
        \/ \E input \in PageInput :
              /\ PageIds \ DOMAIN pages # {}
              /\ Mutate("pageCreate", 0, input, perms)
        \/ \E id \in PageIds, input \in PageInput : Mutate("pageUpdate", id, input, perms)
        \/ \E id \in PageIds : Mutate("pageDelete", id, EmptyDict, perms)
        \/ \E input \in PageTypeCreateInput :
              /\ PageTypeIds \ DOMAIN pageTypes # {}
              /\ Mutate("pageTypeCreate", 0, input, perms)
        \/ \E id \in PageTypeIds, input \in PageTypeUpdateInput :
              Mutate("pageTypeUpdate", id, input, perms)
        \/ \E id \in PageTypeIds : Mutate("pageTypeDelete", id, EmptyDict, perms)

\* BaseMutation.check_permissions: the caller must hold every permission of Meta.permissions
CheckPermissions ==
    /\ pc = "check_permissions"
    /\ IF RequiredPermissions(request.mutation) \subseteq request.perms
       THEN /\ pc' = "get_instance"
            /\ errors' = errors
       ELSE /\ pc' = "respond"
            /\ errors' = ("permission" :>
                    <<ValidationError("You do not have permission to perform this action",
                                      [enum |-> "", name |-> "permission_denied"], <<>>)>>)
    /\ UNCHANGED <<pages, pageTypes, page_attributes, request, instance, cleaned_input, before>>

\* ModelMutation.get_instance: the stored row of the id, or a new unsaved instance
GetInstance ==
    /\ pc = "get_instance"
    /\ LET model == Model(request.mutation)
           table == Table(model)
       IN  IF request.mutation \in {"pageCreate", "pageTypeCreate"}
           THEN /\ instance' = [pk |-> 0, adding |-> TRUE, name |-> "", slug |-> ""]
                /\ pc' = "clean_input"
                /\ errors' = errors
           ELSE IF request.id \in DOMAIN table
           THEN /\ instance' = [pk |-> request.id, adding |-> FALSE,
                                name |-> table[request.id].name,
                                slug |-> table[request.id].slug]
                /\ pc' = IF request.mutation \in {"pageDelete", "pageTypeDelete"}
                         THEN "delete" ELSE "clean_input"
                /\ errors' = errors
           ELSE /\ instance' = instance
                /\ pc' = "respond"
                /\ errors' = ("id" :>
                        <<ValidationError("Couldn't resolve to a node",
                                          PageErrorCode("NOT_FOUND"), <<>>)>>)
    /\ UNCHANGED <<pages, pageTypes, page_attributes, request, cleaned_input, before>>

\* the stage after clean_input: a raised ValidationError ends the mutation
Cleaned(result) ==
    /\ cleaned_input' = result.cleaned_input
    /\ errors' = result.errors
    /\ pc' = IF result.raised THEN "respond" ELSE "save"
    /\ UNCHANGED <<pages, pageTypes, page_attributes, request, instance, before>>

PageCleanInput ==
    /\ pc = "clean_input"
    /\ request.mutation \in {"pageCreate", "pageUpdate"}
    /\ Cleaned(PageCreate_clean_input(instance, request.input))

PageTypeCreateCleanInput ==
    /\ pc = "clean_input"
    /\ request.mutation = "pageTypeCreate"
    /\ Cleaned(PageTypeCreate_clean_input(instance, request.input))

PageTypeUpdateCleanInput ==
    /\ pc = "clean_input"
    /\ request.mutation = "pageTypeUpdate"
    /\ Cleaned(PageTypeUpdate_clean_input(instance, request.input))

\* ModelMutation.construct_instance and save: the cleaned fields are set on the
\* instance and the row is written
Save ==
    /\ pc = "save"
    /\ LET model == Model(request.mutation)
           source == SourceField(model)
           pk == IF instance.adding THEN NextPk(model) ELSE instance.pk
           row == [name |-> IF source \in DOMAIN cleaned_input
                            THEN cleaned_input[source] ELSE instance.name,
                   slug |-> IF "slug" \in DOMAIN cleaned_input
                            THEN cleaned_input.slug ELSE instance.slug]
       IN  /\ instance' = [pk |-> pk, adding |-> FALSE, name |-> row.name, slug |-> row.slug]
           /\ IF model = "Page"
              THEN pages' = SetItem(pages, pk, row) /\ pageTypes' = pageTypes
              ELSE pageTypes' = SetItem(pageTypes, pk, row) /\ pages' = pages
    /\ pc' = "_save_m2m"
    /\ UNCHANGED <<page_attributes, request, cleaned_input, errors, before>>

\* ModelMutation._save_m2m of the page mutations: no relation of this module changes
PageSaveM2M ==
    /\ pc = "_save_m2m"
    /\ request.mutation \in {"pageCreate", "pageUpdate"}
    /\ pc' = "respond"
    /\ UNCHANGED <<pages, pageTypes, page_attributes, request, instance, cleaned_input,
                   errors, before>>

PageTypeCreateSaveM2M ==
    /\ pc = "_save_m2m"
    /\ request.mutation = "pageTypeCreate"
    /\ page_attributes' = PageTypeCreate_save_m2m(page_attributes, instance, cleaned_input)
    /\ pc' = "respond"
    /\ UNCHANGED <<pages, pageTypes, request, instance, cleaned_input, errors, before>>

PageTypeUpdateSaveM2M ==
    /\ pc = "_save_m2m"
    /\ request.mutation = "pageTypeUpdate"
    /\ page_attributes' = PageTypeUpdate_save_m2m(page_attributes, instance, cleaned_input)
    /\ pc' = "respond"
    /\ UNCHANGED <<pages, pageTypes, request, instance, cleaned_input, errors, before>>

\* ModelDeleteMutation.perform_mutation: the row and its relation rows are deleted
Delete ==
    /\ pc = "delete"
    /\ IF Model(request.mutation) = "Page"
       THEN /\ pages' = [pk \in DOMAIN pages \ {instance.pk} |-> pages[pk]]
            /\ UNCHANGED <<pageTypes, page_attributes>>
       ELSE /\ pageTypes' = [pk \in DOMAIN pageTypes \ {instance.pk} |-> pageTypes[pk]]
            /\ page_attributes' = {r \in page_attributes : r[1] # instance.pk}
            /\ pages' = pages
    /\ pc' = "respond"
    /\ UNCHANGED <<request, instance, cleaned_input, errors, before>>

\* the response is returned and the transaction ends
Respond ==
    /\ pc = "respond"
    /\ pc' = "idle"
    /\ request' = NoRequest
    /\ instance' = NoInstance
    /\ cleaned_input' = EmptyDict
    /\ errors' = EmptyDict
    /\ before' = Tables
    /\ UNCHANGED <<pages, pageTypes, page_attributes>>

Next ==
    \/ Call
    \/ CheckPermissions
    \/ GetInstance
    \/ PageCleanInput
    \/ PageTypeCreateCleanInput
    \/ PageTypeUpdateCleanInput
    \/ Save
    \/ PageSaveM2M
    \/ PageTypeCreateSaveM2M
    \/ PageTypeUpdateSaveM2M
    \/ Delete
    \/ Respond

Spec == Init /\ [][Next]_vars

----------------------------------------------------------------------------
(* Vocabulary of the properties *)

\* the attributes associated with page type pk in relation rel
Associated(rel, pk) == {r[2] : r \in {x \in rel : x[1] = pk}}

\* the attribute pks a request lists in field, none when the field is absent
Listed(field) ==
    IF field \in DOMAIN request.input
    THEN {from_global_id(g) : g \in Range(request.input[field])}
    ELSE {}

IsNotPageType(gid) == Attribute(from_global_id(gid)).type # PAGE_TYPE

\* the ids of field, in order, that are not page type attributes
Offending(field) ==
    IF field \in DOMAIN request.input
    THEN SelectSeq(request.input[field], IsNotPageType)
    ELSE <<>>

\* the request passed the permission check and found its instance, and its
\* clean_input has run
CleanInputDone ==
    /\ pc \in {"save", "_save_m2m", "respond"}
    /\ request.mutation \in {"pageCreate", "pageUpdate", "pageTypeCreate", "pageTypeUpdate"}
    /\ "permission" \notin DOMAIN errors
    /\ "id" \notin DOMAIN errors

Failed == pc = "respond" /\ DOMAIN errors # {}
Succeeded == pc = "respond" /\ DOMAIN errors = {}

LacksSlugAndSource ==
    /\ "slug" \notin DOMAIN request.input
    /\ SourceField(Model(request.mutation)) \notin DOMAIN request.input

Codes(field) == {get_error_code_from_error(errors[field][i]) : i \in DOMAIN errors[field]}

----------------------------------------------------------------------------
(* Properties *)

\* C1: a pageTypeUpdate that passes validation leaves the page type with the
\* association set (S \ R) \cup A, S the set before, R the remove list, A the add list.
C1_RemoveThenAdd ==
    (Succeeded /\ request.mutation = "pageTypeUpdate") =>
        Associated(page_attributes, request.id) =
            (Associated(before.page_attributes, request.id) \ Listed("remove_attributes"))
                \cup Listed("add_attributes")

C2_NoPartialPersistence ==
    /\ pc \in {"save", "_save_m2m"} => DOMAIN errors = {}
    /\ Failed => Tables = before
    /\ (pc = "respond" /\ request.mutation = "pageTypeUpdate"
            /\ Listed("add_attributes") \cap Listed("remove_attributes") # {})
         => Tables = before

C2_Witness ==
    /\ Failed
    /\ request.mutation = "pageTypeUpdate"
    /\ "attributes" \in DOMAIN errors
    /\ Associated(before.page_attributes, request.id) # {}
    /\ ~(Listed("add_attributes") \subseteq Associated(before.page_attributes, request.id))

\* C3: a pageTypeUpdate whose add and remove lists share an attribute fails with
\* exactly one DUPLICATED_INPUT_ITEM error under "attributes" whose parameters are
\* the shared attributes; otherwise there is no such error.
C3_DuplicatesReported ==
    (CleanInputDone /\ request.mutation = "pageTypeUpdate") =>
        LET shared == Listed("add_attributes") \cap Listed("remove_attributes")
        IN  IF shared # {}
            THEN /\ Failed
                 /\ "attributes" \in DOMAIN errors
                 /\ Len(errors.attributes) = 1
                 /\ Codes("attributes") = {"duplicated_input_item"}
                 /\ {a.pk : a \in errors.attributes[1].params.attributes} = shared
            ELSE \A field \in DOMAIN errors : "duplicated_input_item" \notin Codes(field)

C3_Witness ==
    /\ CleanInputDone
    /\ request.mutation = "pageTypeUpdate"
    /\ Cardinality(Listed("add_attributes") \cap Listed("remove_attributes")) = 1
    /\ Cardinality(Listed("add_attributes") \cup Listed("remove_attributes")) > 1

\* C4: for add_attributes of pageTypeCreate and add_attributes and remove_attributes
\* of pageTypeUpdate, the field has an error exactly when its list holds an
\* attribute that is not a page type attribute: then one INVALID error under the
\* field's name, listing exactly those ids, and the mutation fails.
C4_Fields == IF request.mutation = "pageTypeUpdate"
             THEN {"add_attributes", "remove_attributes"} ELSE {"add_attributes"}

C4_AttributeKindValidation ==
    (CleanInputDone /\ request.mutation \in {"pageTypeCreate", "pageTypeUpdate"}) =>
        \A field \in C4_Fields :
            IF Offending(field) # <<>>
            THEN /\ Failed
                 /\ field \in DOMAIN errors
                 /\ Len(errors[field]) = 1
                 /\ Codes(field) = {"invalid"}
                 /\ errors[field][1].params.attributes = Offending(field)
            ELSE field \notin DOMAIN errors

C4_Witness ==
    /\ CleanInputDone
    /\ request.mutation = "pageTypeUpdate"
    /\ Len(Offending("remove_attributes")) = 1
    /\ Len(request.input.remove_attributes) = 2
    /\ "add_attributes" \in DOMAIN request.input
    /\ Offending("add_attributes") = <<>>

\* C5: the raised error of pageTypeCreate / pageTypeUpdate has an entry for every
\* violation of the input at once: slug, add_attributes, remove_attributes, attributes.
C5_Expected ==
    (IF LacksSlugAndSource THEN {"slug"} ELSE {})
    \cup (IF Offending("add_attributes") # <<>> THEN {"add_attributes"} ELSE {})
    \cup (IF request.mutation = "pageTypeUpdate" /\ Offending("remove_attributes") # <<>>
          THEN {"remove_attributes"} ELSE {})
    \cup (IF request.mutation = "pageTypeUpdate"
             /\ Listed("add_attributes") \cap Listed("remove_attributes") # {}
          THEN {"attributes"} ELSE {})

C5_ErrorsAccumulated ==
    (CleanInputDone /\ request.mutation \in {"pageTypeCreate", "pageTypeUpdate"}) =>
        /\ DOMAIN errors = C5_Expected
        /\ "slug" \in DOMAIN errors => Codes("slug") = {"required"}
        /\ "add_attributes" \in DOMAIN errors => Codes("add_attributes") = {"invalid"}
        /\ "remove_attributes" \in DOMAIN errors => Codes("remove_attributes") = {"invalid"}
        /\ "attributes" \in DOMAIN errors => Codes("attributes") = {"duplicated_input_item"}

C5_Witness ==
    /\ CleanInputDone
    /\ request.mutation = "pageTypeUpdate"
    /\ DOMAIN errors = {"slug", "add_attributes", "remove_attributes", "attributes"}

\* C6: an input with neither slug nor source field (title / name) fails with a
\* REQUIRED error on "slug", and nothing is persisted.
C6_SlugRequired ==
    (CleanInputDone /\ LacksSlugAndSource) =>
        /\ Failed
        /\ "slug" \in DOMAIN errors
        /\ "required" \in Codes("slug")
        /\ Tables = before

C6_Witness ==
    /\ CleanInputDone
    /\ LacksSlugAndSource
    /\ request.mutation = "pageUpdate"

\* C7: a pageTypeCreate with name or slug and only page type attributes in
\* add_attributes succeeds, and the new page type's association set is exactly
\* the set of add_attributes.
C7_CreateAssociates ==
    (CleanInputDone /\ request.mutation = "pageTypeCreate") =>
        /\ (~LacksSlugAndSource /\ Offending("add_attributes") = <<>>) => DOMAIN errors = {}
        /\ Succeeded =>
            /\ instance.pk \in DOMAIN pageTypes \ DOMAIN before.pageTypes
            /\ Associated(page_attributes, instance.pk) = Listed("add_attributes")

C7_Witness ==
    /\ Succeeded
    /\ request.mutation = "pageTypeCreate"
    /\ Cardinality(Listed("add_attributes")) = 2

\* C8: every attribute associated with a page type is a page type attribute.
C8_OnlyPageTypeAttributes ==
    \A r \in page_attributes : Attribute(r[2]).type = PAGE_TYPE

C8_Witness ==
    /\ Failed
    /\ request.mutation = "pageTypeUpdate"
    /\ DOMAIN errors = {"add_attributes"}
    /\ Associated(page_attributes, request.id) # {}

\* C9: a page mutation called without "manage pages", or pageTypeCreate /
\* pageTypeUpdate called without "manage page types and attributes", fails before
\* clean_input runs and changes no table.
C9_Denied ==
    \/ /\ request.mutation \in {"pageCreate", "pageUpdate", "pageDelete"}
       /\ MANAGE_PAGES \notin request.perms
    \/ /\ request.mutation \in {"pageTypeCreate", "pageTypeUpdate"}
       /\ MANAGE_PAGE_TYPES_AND_ATTRIBUTES \notin request.perms

C9_PermissionFirst ==
    C9_Denied =>
        /\ pc \in {"check_permissions", "respond"}
        /\ pc = "respond" => "permission" \in DOMAIN errors
        /\ cleaned_input = EmptyDict
        /\ Tables = before

C9_Witness ==
    /\ C9_Denied
    /\ pc = "respond"
    /\ request.mutation = "pageTypeUpdate"
    /\ request.id \in DOMAIN pageTypes
    /\ "add_attributes" \in DOMAIN request.input

====
